---- MODULE Spec2Model ----
(***************************************************************************)
(* A model of hub's chunk writer: BaseChunk (hub/core/chunk/base_chunk.py) *)
(* with its shape and byte-positions encoders, the chunk codec, the tensor *)
(* meta binding and the tiling protocol.                                   *)
(*                                                                         *)
(* One chunk is held in memory at a time (chunk); NewChunk rotates to a    *)
(* fresh chunk of the same tensor, whose TensorMeta (meta) persists.       *)
(* Sample indices are 0-based as in the code; sequences are 1-based.       *)
(***************************************************************************)
EXTENDS Integers, Sequences, FiniteSets, TLC

VARIABLES
    chunk,   \* the chunk object: version, the two encoders' rows, data_bytes
    meta,    \* the shared TensorMeta: length, min_shape, max_shape,
             \* chunk_compression
    tiles,   \* the SampleTiles handle the caller is writing out (or NoTiles)
    log,     \* history: the samples this chunk is expected to hold, in order
    hist,    \* history of this chunk: partial once a call on it raised after it
             \* had changed something, used once write_tile ran on it when it
             \* was not fresh, after counts the calls on it since either;
             \* rewritten once update_sample or write_tile wrote to it
    last,    \* history: the last call, its arguments and what it returned
    pw,      \* two workers, each admitting samples into a chunk of its own:
             \* per worker its position, its chunk and what it has admitted
    pmeta,   \* the TensorMeta the workers' chunks share
    pinit,   \* history: that TensorMeta as the workers found it
    plock,   \* the caller's lock on the TensorMeta: 0 when free, else its holder
    provider,   \* an S3Provider: its bucket and the path of its root
    objects,    \* the objects of the bucket, by key
    s3last      \* history: the provider's last call, what the client answered
                \* and what the call raised or returned

\* one chunk and its caller
cvars == <<chunk, meta, tiles, log, hist, last>>

\* the parallel workers
pvars == <<pw, pmeta, pinit, plock>>

\* the object store
svars == <<provider, objects, s3last>>

vars == <<cvars, pvars, svars>>

(***************************************************************************)
(* Bounds and configuration                                                *)
(***************************************************************************)
\* chunk_args: the budgets every chunk of the tensor is constructed with
min_chunk_size == 5
max_chunk_size == 7

\* TensorMeta.length and the samples of one chunk are capped so that the state
\* space is finite
MaxLength == 3
MaxSamples == 3

\* how many calls the model follows on a chunk after a call has left it
\* partly written
MaxAfter == 1

\* hub.__version__, and the version tag of a buffer an older release wrote
CurrentVersion == <<2, 1>>
OldVersion == <<1>>

Max(a, b) == IF a >= b THEN a ELSE b
Min(a, b) == IF a <= b THEN a ELSE b

\* python's s[a:b] on a sequence (0-based, half-open, clamped)
Slice(s, a, b) == SubSeq(s, Min(a, Len(s)) + 1, Min(b, Len(s)))

\* python's s[a:b] = v on a bytearray: the slice is replaced, whatever its length
SliceAssign(s, a, b, v) ==
    LET lo == Min(a, Len(s))
        hi == Max(lo, Min(b, Len(s)))
    IN  SubSeq(s, 1, lo) \o v \o SubSeq(s, hi + 1, Len(s))

\* bytearray(n)
Zeros(n) == [k \in 1..n |-> 0]

(***************************************************************************)
(* ShapeEncoder: rows <<shape, last_index>>                                *)
(***************************************************************************)
shapes_num_samples(rows) ==
    IF rows = <<>> THEN 0 ELSE rows[Len(rows)][2] + 1

\* the table is 2-D: every shape in it has as many axes as the first
shapes_accepts(rows, shape) ==
    rows = <<>> \/ Len(rows[1][1]) = Len(shape)

shapes_register_samples(rows, shape) ==
    IF rows # <<>> /\ rows[Len(rows)][1] = shape
    THEN [rows EXCEPT ![Len(rows)][2] = @ + 1]
    ELSE Append(rows, <<shape, shapes_num_samples(rows)>>)

\* lookup: the first row whose last_index reaches i
shapes_row_of(rows, i) ==
    CHOOSE r \in 1..Len(rows) :
        /\ rows[r][2] >= i
        /\ \A q \in 1..(r - 1) : rows[q][2] < i

shapes_get(rows, i) == rows[shapes_row_of(rows, i)][1]

RECURSIVE shapes_merge(_)
shapes_merge(rows) ==
    IF Len(rows) <= 1 THEN rows
    ELSE IF rows[1][1] = rows[2][1]
         THEN shapes_merge(Tail(rows))
         ELSE <<rows[1]>> \o shapes_merge(Tail(rows))

\* set: split the run holding i into before / at / after, then join equal
\* neighbours
shapes_set(rows, i, shape) ==
    LET r     == shapes_row_of(rows, i)
        first == IF r = 1 THEN 0 ELSE rows[r - 1][2] + 1
        lastI == rows[r][2]
        old   == rows[r][1]
        before == IF i > first THEN << <<old, i - 1>> >> ELSE <<>>
        after  == IF i < lastI THEN << <<old, lastI>> >> ELSE <<>>
    IN  shapes_merge(SubSeq(rows, 1, r - 1) \o before \o << <<shape, i>> >>
                     \o after \o SubSeq(rows, r + 1, Len(rows)))

(***************************************************************************)
(* BytePositionsEncoder: rows <<num_bytes, first_start, last_index>>       *)
(***************************************************************************)
bp_num_samples(rows) ==
    IF rows = <<>> THEN 0 ELSE rows[Len(rows)][3] + 1

bp_row_first(rows, r) == IF r = 1 THEN 0 ELSE rows[r - 1][3] + 1

\* the byte after the last registered sample
bp_end(rows) ==
    IF rows = <<>> THEN 0
    ELSE LET r == Len(rows)
         IN  rows[r][2] + (rows[r][3] - bp_row_first(rows, r) + 1) * rows[r][1]

bp_register_samples(rows, nbytes) ==
    IF rows # <<>> /\ rows[Len(rows)][1] = nbytes
    THEN [rows EXCEPT ![Len(rows)][3] = @ + 1]
    ELSE Append(rows, <<nbytes, bp_end(rows), bp_num_samples(rows)>>)

bp_row_of(rows, i) ==
    CHOOSE r \in 1..Len(rows) :
        /\ rows[r][3] >= i
        /\ \A q \in 1..(r - 1) : rows[q][3] < i

\* lookup: <<start, end>> of sample i
bp_get(rows, i) ==
    LET r     == bp_row_of(rows, i)
        start == rows[r][2] + (i - bp_row_first(rows, r)) * rows[r][1]
    IN  <<start, start + rows[r][1]>>

RECURSIVE bp_merge(_)
bp_merge(rows) ==
    IF Len(rows) <= 1 THEN rows
    ELSE IF rows[1][1] = rows[2][1]
         THEN bp_merge(<<[rows[2] EXCEPT ![2] = rows[1][2]]>> \o SubSeq(rows, 3, Len(rows)))
         ELSE <<rows[1]>> \o bp_merge(Tail(rows))

\* recompute every row's first_start from the rows before it
RECURSIVE bp_relocate(_, _, _)
bp_relocate(rows, start, first) ==
    IF rows = <<>> THEN <<>>
    ELSE LET row == rows[1]
         IN  <<[row EXCEPT ![2] = start]>>
             \o bp_relocate(Tail(rows), start + (row[3] - first + 1) * row[1], row[3] + 1)

bp_set(rows, i, nbytes) ==
    LET r     == bp_row_of(rows, i)
        first == bp_row_first(rows, r)
        lastI == rows[r][3]
        old   == rows[r]
        before == IF i > first THEN << <<old[1], old[2], i - 1>> >> ELSE <<>>
        after  == IF i < lastI THEN << <<old[1], old[2], lastI>> >> ELSE <<>>
    IN  bp_relocate(bp_merge(SubSeq(rows, 1, r - 1) \o before \o << <<nbytes, old[2], i>> >>
                             \o after \o SubSeq(rows, r + 1, Len(rows))), 0, 0)

(***************************************************************************)
(* TensorMeta                                                              *)
(***************************************************************************)
\* componentwise widening of the shape envelope
widen_min(lo, shape) == [k \in 1..Len(lo) |-> Min(lo[k], shape[k])]
widen_max(hi, shape) == [k \in 1..Len(hi) |-> Max(hi[k], shape[k])]

\* update_shape_interval setting the envelope to the shape it is given
update_shape_interval_replaces(m, shape) ==
    IF m.min_shape # <<>> /\ Len(shape) # Len(m.min_shape)
    THEN [m |-> m, ok |-> FALSE]
    ELSE [m |-> [m EXCEPT !.min_shape = shape, !.max_shape = shape], ok |-> TRUE]

\* update_shape_interval: the first shape sets the envelope; a shape of another
\* dimensionality is refused (InvalidSampleShape); result [m, ok]
update_shape_interval(m, shape) ==
    IF m.min_shape = <<>>
    THEN [m |-> [m EXCEPT !.min_shape = shape, !.max_shape = shape], ok |-> TRUE]
    ELSE IF Len(shape) # Len(m.min_shape)
    THEN [m |-> m, ok |-> FALSE]
    ELSE [m |-> [m EXCEPT !.min_shape = widen_min(@, shape),
                          !.max_shape = widen_max(@, shape)],
          ok |-> TRUE]

\* shape errors are raised before the chunk is touched: a sample's
\* dimensionality is that recorded for the tensor, when one is recorded
check_sample_shape(m, shape) ==
    m.max_shape = <<>> \/ Len(shape) = Len(m.max_shape)

(***************************************************************************)
(* BaseChunk                                                               *)
(***************************************************************************)
\* Optional[int]: None is <<>>, an int n is <<n>>
None == <<>>
Some(n) == <<n>>

\* the compressions of the model: none, and one image codec
Uncompressed == "none"
ImageCompression == "png"

\* hub.constants.CONVERT_GRAYSCALE
CONVERT_GRAYSCALE == TRUE

\* chunk_args: the TensorMeta the chunk is bound to and the compression (the
\* budgets are min_chunk_size and max_chunk_size)
ChunkArgs(tensor_meta, compression) ==
    [tensor_meta |-> tensor_meta, compression |-> compression]

\* len(tensor_meta.max_shape) if tensor_meta.max_shape else None
num_dims_of(tensor_meta) ==
    IF tensor_meta.max_shape # <<>> THEN Some(Len(tensor_meta.max_shape)) ELSE None

\* BaseChunk.__init__ with chunk_args only: empty encoders, an owned bytearray
NewChunkObject(chunk_args) ==
    [version     |-> CurrentVersion,
     num_dims    |-> num_dims_of(chunk_args.tensor_meta),
     shapes      |-> <<>>,
     bpos        |-> <<>>,
     data        |-> <<>>,
     kind        |-> "bytearray",
     copies      |-> 0,
     compression |-> chunk_args.compression]

\* BaseChunk.__init__ with encoders and data: `data or bytearray()` keeps a
\* non-empty memoryview and replaces an empty one by a fresh bytearray
InitChunkObject(chunk_args, shapes, bpos, data) ==
    [version     |-> CurrentVersion,
     num_dims    |-> num_dims_of(chunk_args.tensor_meta),
     shapes      |-> shapes,
     bpos        |-> bpos,
     data        |-> data,
     kind        |-> IF data # <<>> THEN "memoryview" ELSE "bytearray",
     copies      |-> 0,
     compression |-> chunk_args.compression]

\* the tensor's htype is generic: only an image compression makes the chunk a
\* candidate for grayscale conversion
is_convert_candidate(c) == c.compression = ImageCompression

num_data_bytes(c) == Len(c.data)

num_samples(c) == shapes_num_samples(c.shapes)

\* can_fit_sample with the comparison turned round
can_fit_sample_inverted(c, sample_nbytes, buffer_nbytes) ==
    num_data_bytes(c) + buffer_nbytes + sample_nbytes > min_chunk_size

\* can_fit_sample with the bound included
can_fit_sample_inclusive(c, sample_nbytes, buffer_nbytes) ==
    num_data_bytes(c) + buffer_nbytes + sample_nbytes <= min_chunk_size

\* can_fit_sample without the bytes the chunk already holds
can_fit_sample_ignoring_data(c, sample_nbytes, buffer_nbytes) ==
    buffer_nbytes + sample_nbytes < min_chunk_size

can_fit_sample(c, sample_nbytes, buffer_nbytes) ==
    num_data_bytes(c) + buffer_nbytes + sample_nbytes < min_chunk_size

\* _make_data_bytearray: a memoryview is copied into a bytearray (copies
\* counts the copies made since the chunk object was constructed)
make_data_bytearray(c) ==
    IF c.kind = "memoryview"
    THEN [c EXCEPT !.kind = "bytearray", !.copies = @ + 1]
    ELSE c

\* ffw_chunk: a chunk of an older version is brought to the current one
ffw_chunk(c) ==
    IF c.version # CurrentVersion THEN [c EXCEPT !.version = CurrentVersion] ELSE c

\* prepare_for_write without the copy into a bytearray
prepare_for_write_no_copy(c) == ffw_chunk(c)

\* prepare_for_write without the fast-forward
prepare_for_write_no_ffw(c) == make_data_bytearray(c)

prepare_for_write(c) == make_data_bytearray(ffw_chunk(c))

\* register_sample_to_headers registering one byte too many
register_sample_to_headers_one_more(c, incoming_num_bytes, sample_shape) ==
    IF ~shapes_accepts(c.shapes, sample_shape)
    THEN [c |-> c, ok |-> FALSE]
    ELSE LET c1 == [c EXCEPT !.shapes = shapes_register_samples(@, sample_shape)]
         IN  [c  |-> IF incoming_num_bytes # None
                     THEN [c1 EXCEPT !.bpos = bp_register_samples(@, incoming_num_bytes[1] + 1)]
                     ELSE c1,
              ok |-> TRUE]

\* register_sample_to_headers: result [c, ok]; the shape encoder refuses a shape
\* of another dimensionality before anything is registered
register_sample_to_headers(c, incoming_num_bytes, sample_shape) ==
    IF ~shapes_accepts(c.shapes, sample_shape)
    THEN [c |-> c, ok |-> FALSE]
    ELSE LET c1 == [c EXCEPT !.shapes = shapes_register_samples(@, sample_shape)]
         IN  [c  |-> IF incoming_num_bytes # None
                     THEN [c1 EXCEPT !.bpos = bp_register_samples(@, incoming_num_bytes[1])]
                     ELSE c1,
              ok |-> TRUE]

\* register_in_meta_and_headers handing no byte count to the headers
register_in_meta_and_headers_no_nbytes(c, m, sample_nbytes, shape) ==
    LET r  == register_sample_to_headers(c, None, shape)
        m1 == [m EXCEPT !.length = @ + 1]
        u  == update_shape_interval(m1, shape)
    IN  IF ~r.ok THEN [c |-> r.c, m |-> m, ok |-> FALSE]
        ELSE [c |-> r.c, m |-> u.m, ok |-> u.ok]

\* register_in_meta_and_headers: result [c, m, ok]; a step that raises leaves
\* what the steps before it did
register_in_meta_and_headers(c, m, sample_nbytes, shape) ==
    LET r  == register_sample_to_headers(c, sample_nbytes, shape)
        m1 == [m EXCEPT !.length = @ + 1]
        u  == update_shape_interval(m1, shape)
    IN  IF ~r.ok THEN [c |-> r.c, m |-> m, ok |-> FALSE]
        ELSE [c |-> r.c, m |-> u.m, ok |-> u.ok]

\* update_in_meta_and_headers registering the shape as a new sample's
update_in_meta_and_headers_registers(c, m, local_sample_index, sample_nbytes, shape) ==
    LET c1 == IF sample_nbytes # None
              THEN [c EXCEPT !.bpos = bp_set(@, local_sample_index, sample_nbytes[1])]
              ELSE c
        ok2 == shapes_accepts(c1.shapes, shape)
        c2 == IF ok2 THEN [c1 EXCEPT !.shapes = shapes_register_samples(@, shape)]
              ELSE c1
        u  == update_shape_interval(m, shape)
    IN  IF ~ok2 THEN [c |-> c2, m |-> m, ok |-> FALSE]
        ELSE [c |-> c2, m |-> u.m, ok |-> u.ok]

\* update_in_meta_and_headers leaving the byte-positions encoder as it was
update_in_meta_and_headers_keeps_positions(c, m, local_sample_index, sample_nbytes, shape) ==
    LET ok2 == shapes_accepts(c.shapes, shape)
        c2  == IF ok2 THEN [c EXCEPT !.shapes = shapes_set(@, local_sample_index, shape)]
               ELSE c
        u   == update_shape_interval(m, shape)
    IN  IF ~ok2 THEN [c |-> c2, m |-> m, ok |-> FALSE]
        ELSE [c |-> c2, m |-> u.m, ok |-> u.ok]

\* update_in_meta_and_headers: result [c, m, ok]
update_in_meta_and_headers(c, m, local_sample_index, sample_nbytes, shape) ==
    LET c1 == IF sample_nbytes # None
              THEN [c EXCEPT !.bpos = bp_set(@, local_sample_index, sample_nbytes[1])]
              ELSE c
        ok2 == shapes_accepts(c1.shapes, shape)
        c2 == IF ok2 THEN [c1 EXCEPT !.shapes = shapes_set(@, local_sample_index, shape)]
              ELSE c1
        u  == update_shape_interval(m, shape)
    IN  IF ~ok2 THEN [c |-> c2, m |-> m, ok |-> FALSE]
        ELSE [c |-> c2, m |-> u.m, ok |-> u.ok]

\* check_shape_for_update comparing the shapes, not their dimensionality
check_shape_for_update_same_shape(c, local_sample_index, shape) ==
    shapes_get(c.shapes, local_sample_index) = shape

\* check_shape_for_update letting every shape pass
check_shape_for_update_any(c, local_sample_index, shape) == TRUE

\* check_shape_for_update: TRUE when the shape passes
check_shape_for_update(c, local_sample_index, shape) ==
    Len(shapes_get(c.shapes, local_sample_index)) = Len(shape)

\* create_buffer_with_updated_data taking the right part from the new end
\* of the sample, as an overwrite in place would
create_buffer_with_updated_data_in_place(c, local_sample_index, old_data, new_sample_bytes) ==
    LET pos        == bp_get(c.bpos, local_sample_index)
        left_data  == Slice(old_data, 0, pos[1])
        right_data == Slice(old_data, pos[1] + Len(new_sample_bytes), Len(old_data))
    IN  left_data \o new_sample_bytes \o right_data

create_buffer_with_updated_data(c, local_sample_index, old_data, new_sample_bytes) ==
    LET pos            == bp_get(c.bpos, local_sample_index)
        old_start_byte == pos[1]
        old_end_byte   == pos[2]
        left_data      == Slice(old_data, 0, old_start_byte)
        right_data     == Slice(old_data, old_end_byte, Len(old_data))
        total_new_bytes == Len(left_data) + Len(new_sample_bytes) + Len(right_data)
        new_start_byte == old_start_byte
        new_end_byte   == old_start_byte + Len(new_sample_bytes)
        d1 == SliceAssign(Zeros(total_new_bytes), 0, new_start_byte, left_data)
        d2 == SliceAssign(d1, new_start_byte, new_end_byte, new_sample_bytes)
    IN  SliceAssign(d2, new_end_byte, Len(d2), right_data)

(***************************************************************************)
(* Chunk codec: version_len, version, shapes (array spec, rows), byte      *)
(* positions (array spec, rows), data                                      *)
(***************************************************************************)
RECURSIVE Flatten(_)
Flatten(rows) ==
    IF rows = <<>> THEN <<>> ELSE rows[1] \o Flatten(Tail(rows))

\* a 2-D integer table on the wire: its dims, then its rows
encode_table(table) ==
    <<Len(table), IF table = <<>> THEN 0 ELSE Len(table[1])>> \o Flatten(table)

\* the table read at 0-based offset `at` of buf: [table, next]
decode_table(buf, at) ==
    LET nrows == buf[at + 1]
        ncols == buf[at + 2]
        body  == at + 2
    IN  [table |-> [r \in 1..nrows |->
                       SubSeq(buf, body + (r - 1) * ncols + 1, body + r * ncols)],
         next  |-> body + nrows * ncols]

shapes_array(rows) == [r \in 1..Len(rows) |-> rows[r][1] \o <<rows[r][2]>>]

shapes_from_array(table) ==
    [r \in 1..Len(table) |->
        <<SubSeq(table[r], 1, Len(table[r]) - 1), table[r][Len(table[r])]>>]

serialize_chunk(version, shapes, byte_positions, data) ==
    <<Len(version)>> \o version
        \o encode_table(shapes_array(shapes))
        \o encode_table(byte_positions)
        \o data

deserialize_chunk(buffer) ==
    LET vlen == buffer[1]
        sh   == decode_table(buffer, 1 + vlen)
        bp   == decode_table(buffer, sh.next)
    IN  [version        |-> SubSeq(buffer, 2, 1 + vlen),
         shapes         |-> shapes_from_array(sh.table),
         byte_positions |-> bp.table,
         data           |-> SubSeq(buffer, bp.next + 1, Len(buffer))]

infer_chunk_num_bytes(version, shapes, byte_positions, len_data) ==
    1 + Len(version)
      + 2 + Len(shapes) * (IF shapes = <<>> THEN 0 ELSE Len(shapes[1][1]) + 1)
      + 2 + Len(byte_positions) * 3
      + len_data

\* nbytes counting the running release's version
nbytes_current_version(c) ==
    infer_chunk_num_bytes(CurrentVersion, c.shapes, c.bpos, num_data_bytes(c))

nbytes(c) == infer_chunk_num_bytes(c.version, c.shapes, c.bpos, num_data_bytes(c))

\* tobytes writing the running release's version
tobytes_current_version(c) == serialize_chunk(CurrentVersion, c.shapes, c.bpos, c.data)

tobytes(c) == serialize_chunk(c.version, c.shapes, c.bpos, c.data)

frombuffer(buffer, chunk_args) ==
    IF buffer = <<>> THEN NewChunkObject(chunk_args)
    ELSE LET d == deserialize_chunk(buffer)
         IN  [InitChunkObject(chunk_args, d.shapes, d.byte_positions, d.data)
                 EXCEPT !.version = d.version]

copy(c, chunk_args) == frombuffer(tobytes(c), chunk_args)

\* convert_to_rgb giving every 2-D shape a third axis
convert_to_rgb_always(c, shape) ==
    IF is_convert_candidate(c) /\ CONVERT_GRAYSCALE
    THEN LET c1 == IF c.num_dims = None THEN [c EXCEPT !.num_dims = Some(Len(shape))] ELSE c
         IN  [c |-> c1, shape |-> IF Len(shape) = 2 THEN shape \o <<1>> ELSE shape]
    ELSE [c |-> c, shape |-> shape]

\* convert_to_rgb without the conversion
convert_to_rgb_never(c, shape) == [c |-> c, shape |-> shape]

\* convert_to_rgb: [c, shape]; the first shape seen sets num_dims, and a 2-D
\* shape gets a third axis when num_dims is 3
convert_to_rgb(c, shape) ==
    IF is_convert_candidate(c) /\ CONVERT_GRAYSCALE
    THEN LET c1 == IF c.num_dims = None THEN [c EXCEPT !.num_dims = Some(Len(shape))] ELSE c
         IN  [c     |-> c1,
              shape |-> IF Len(shape) = 2 /\ c1.num_dims = Some(3)
                        THEN shape \o <<1>> ELSE shape]
    ELSE [c |-> c, shape |-> shape]

\* the shape None: a value no array has for a shape
NoShape == <<-1>>

\* normalize_shape leaving every shape as it is
normalize_shape_identity(shape) == shape

normalize_shape(shape) ==
    IF shape # NoShape /\ Len(shape) = 0 THEN <<1>> ELSE shape

\* read_sample on an uncompressed chunk: the shape and the slice of the data
read_sample(c, local_sample_index) ==
    LET pos == bp_get(c.bpos, local_sample_index)
    IN  [shape |-> shapes_get(c.shapes, local_sample_index),
         bytes |-> Slice(c.data, pos[1], pos[2])]

(***************************************************************************)
(* Inputs                                                                  *)
(***************************************************************************)
\* what serialize_sample hands to the chunk: (bytes, shape) pairs.  The byte
\* count of a compressed sample does not follow from its shape.
Samples ==
    { [shape |-> <<1>>,    bytes |-> <<11>>],
      [shape |-> <<2>>,    bytes |-> <<21, 22>>],
      [shape |-> <<2>>,    bytes |-> <<31>>],
      [shape |-> <<1, 2>>, bytes |-> <<41, 42>>],
      [shape |-> <<1>>,    bytes |-> <<51, 52, 53, 54, 55>>] }

\* images, compressed, as a tensor under image compression receives them
ImageSamples ==
    { [shape |-> <<1, 2>>, bytes |-> <<45>>],
      [shape |-> <<2, 2>>, bytes |-> <<46, 47>>],
      [shape |-> <<2, 2, 3>>, bytes |-> <<48>>] }

\* the arguments of update_sample
UpdateBuffers == { <<71>>, <<91, 92, 93, 94, 95, 96, 97, 98>> }
UpdateShapes == { <<2>>, <<1, 2>> }

\* oversize samples as the tiler cuts them: the whole sample's shape, and
\* each tile's shape and bytes
TiledSamples ==
    { [sample_shape |-> <<2>>,
       tiles |-> << [shape |-> <<1>>, bytes |-> <<1, 2, 3, 4, 5, 6>>],
                    [shape |-> <<1>>, bytes |-> <<7, 8, 9, 10, 11, 12>>] >>],
      [sample_shape |-> <<3, 2>>,
       tiles |-> << [shape |-> <<1, 2>>, bytes |-> <<1, 2, 3, 4, 5>>],
                    [shape |-> <<1, 2>>, bytes |-> <<6, 7, 8, 9, 10>>],
                    [shape |-> <<1, 2>>, bytes |-> <<11, 12, 13, 14, 15>>] >>] }

(***************************************************************************)
(* SampleTiles                                                             *)
(***************************************************************************)
\* a handle with nothing yielded yet; length0 is TensorMeta.length when the
\* serializer returned it
SampleTilesObject(t, length0) ==
    [sample_shape |-> t.sample_shape, tiles |-> t.tiles, tiles_yielded |-> 0,
     length0 |-> length0, envelope_calls |-> 0, fresh |-> TRUE]

NoTiles == SampleTilesObject([sample_shape |-> <<>>, tiles |-> <<>>], 0)

yield_tile(sample) == [sample EXCEPT !.tiles_yielded = @ + 1]

\* the tile yield_tile returned last
current_tile(sample) == sample.tiles[sample.tiles_yielded]

is_first_write(sample) == sample.tiles_yielded = 1

is_last_write(sample) == sample.tiles_yielded = Len(sample.tiles)

(***************************************************************************)
(* The chunk's operations: each returns the chunk and the meta it leaves   *)
(* and ret, what the caller gets ("raise" for an exception)                *)
(***************************************************************************)
is_empty(c) == num_samples(c) = 0

\* what admitting s adds to the data block
incoming_nbytes(c, s) ==
    IF c.compression = ImageCompression THEN 1 + Len(s.bytes) ELSE Len(s.bytes)

\* extend_if_has_space on an uncompressed chunk, for a sample within the
\* budget: 1, 0, or InvalidSampleShape
extend_if_has_space(c, m, s) ==
    LET c0    == prepare_for_write(c)
        shape == normalize_shape(s.shape)
        n     == incoming_nbytes(c, s)
        c1    == [c0 EXCEPT !.data = @ \o s.bytes]
        r     == register_in_meta_and_headers(c1, m, Some(Len(s.bytes)), shape)
    IN  IF ~check_sample_shape(m, shape)
        THEN [c |-> c0, m |-> m, ret |-> "raise", shape |-> shape]
        ELSE IF is_empty(c0) \/ can_fit_sample(c0, n, 0)
        THEN [c |-> r.c, m |-> r.m, ret |-> IF r.ok THEN "1" ELSE "raise", shape |-> shape]
        ELSE [c |-> c0, m |-> m, ret |-> "0", shape |-> shape]

\* the image container a chunk under image compression holds: each image's
\* length, then its bytes
RECURSIVE compress_images(_)
compress_images(images) ==
    IF images = <<>> THEN <<>>
    ELSE <<Len(images[1])>> \o images[1] \o compress_images(Tail(images))

RECURSIVE decompress_images(_)
decompress_images(data) ==
    IF data = <<>> THEN <<>>
    ELSE <<SubSeq(data, 2, 1 + data[1])>>
             \o decompress_images(SubSeq(data, 2 + data[1], Len(data)))

\* extend_if_has_space on a chunk under chunk-wise image compression: the
\* image joins the decompressed samples, the data block is recompressed, and
\* no byte position is registered
extend_if_has_space_image(c, m, s) ==
    LET cv    == convert_to_rgb(prepare_for_write(c), s.shape)
        c0    == cv.c
        shape == normalize_shape(cv.shape)
        n     == incoming_nbytes(c, s)
        c1    == [c0 EXCEPT !.data = compress_images(Append(decompress_images(@), s.bytes))]
        r     == register_in_meta_and_headers(c1, m, None, shape)
    IN  IF ~check_sample_shape(m, shape)
        THEN [c |-> c0, m |-> m, ret |-> "raise", shape |-> shape]
        ELSE IF is_empty(c0) \/ can_fit_sample(c0, n, 0)
        THEN [c |-> r.c, m |-> r.m, ret |-> IF r.ok THEN "1" ELSE "raise", shape |-> shape]
        ELSE [c |-> c0, m |-> m, ret |-> "0", shape |-> shape]

\* update_sample on an uncompressed chunk
update_sample(c, m, local_sample_index, new_buffer, new_shape) ==
    LET c0 == prepare_for_write(c)
        c1 == [c0 EXCEPT !.data = create_buffer_with_updated_data(
                                      c0, local_sample_index, c0.data, new_buffer)]
        r  == update_in_meta_and_headers(c1, m, local_sample_index,
                                         Some(Len(new_buffer)), new_shape)
    IN  IF ~check_shape_for_update(c0, local_sample_index, new_shape)
        THEN [c |-> c0, m |-> m, ret |-> "raise"]
        ELSE [c |-> r.c, m |-> r.m, ret |-> IF r.ok THEN "ok" ELSE "raise"]

\* write_tile updating the meta on every tile
write_tile_every_tile(c, m, sample) ==
    LET s1   == yield_tile(sample)
        data == current_tile(s1).bytes
        c1   == [c EXCEPT !.data = data, !.kind = "bytes"]
        r    == register_sample_to_headers(c1, Some(Len(data)), current_tile(s1).shape)
        m1   == [m EXCEPT !.length = @ + 1]
        u    == update_shape_interval(m1, s1.sample_shape)
    IN  IF ~r.ok THEN [c |-> r.c, m |-> m, ret |-> "raise", sample |-> s1]
        ELSE [c |-> r.c, m |-> u.m, ret |-> IF u.ok THEN "ok" ELSE "raise",
              sample |-> [s1 EXCEPT !.envelope_calls = @ + 1]]

\* write_tile: the next tile of the handle becomes this chunk's data block;
\* also returns the handle after the yield
write_tile(c, m, sample) ==
    LET s1   == yield_tile(sample)
        data == current_tile(s1).bytes
        sample_nbytes == Len(data)
        c1   == [c EXCEPT !.data = data, !.kind = "bytes"]
        tile_shape  == current_tile(s1).shape
        update_meta == is_first_write(s1)
        r    == register_sample_to_headers(c1, Some(sample_nbytes), tile_shape)
        m1   == [m EXCEPT !.length = @ + 1]
        u    == update_shape_interval(m1, s1.sample_shape)
    IN  IF ~r.ok THEN [c |-> r.c, m |-> m, ret |-> "raise", sample |-> s1]
        ELSE IF update_meta
        THEN [c |-> r.c, m |-> u.m, ret |-> IF u.ok THEN "ok" ELSE "raise",
              sample |-> [s1 EXCEPT !.envelope_calls = @ + 1]]
        ELSE [c |-> r.c, m |-> m, ret |-> "ok", sample |-> s1]

(***************************************************************************)
(* State                                                                   *)
(***************************************************************************)
\* a chunk an older release wrote and flushed, and the tensor's meta with it
RECURSIVE ChunkOf(_, _)
ChunkOf(c, samples) ==
    IF samples = <<>> THEN c
    ELSE ChunkOf(register_sample_to_headers(
                     [c EXCEPT !.data = @ \o samples[1].bytes],
                     Some(Len(samples[1].bytes)), samples[1].shape).c,
                 Tail(samples))

StoredSamples ==
    << [shape |-> <<2>>, bytes |-> <<21, 22>>], [shape |-> <<1>>, bytes |-> <<11>>] >>

StoredBuffer ==
    LET c == ChunkOf(NewChunkObject(ChunkArgs([max_shape |-> <<>>], Uncompressed)), StoredSamples)
    IN  serialize_chunk(OldVersion, c.shapes, c.bpos, c.data)

NoHistory == [partial |-> FALSE, used |-> FALSE, after |-> 0, rewritten |-> FALSE]

\* the arguments of a call: the index, the shape as serialized, the bytes, and
\* the shape as the caller gave it
NoArgs == [i |-> 0, shape |-> <<>>, bytes |-> <<>>, given |-> <<>>]

Call(op, args, ret) == [op |-> op, args |-> args, ret |-> ret]

\* a new tensor, uncompressed or under chunk-wise image compression
InitFresh ==
    /\ \E compression \in {Uncompressed, ImageCompression} :
          /\ meta = [length |-> 0, min_shape |-> <<>>, max_shape |-> <<>>,
                     chunk_compression |-> compression]
          /\ chunk = NewChunkObject(ChunkArgs(meta, compression))
    /\ log = <<>>

\* a tensor whose chunk an older release wrote, loaded from storage
InitStored ==
    /\ meta = [length |-> 2, min_shape |-> <<1>>, max_shape |-> <<2>>,
               chunk_compression |-> Uncompressed]
    /\ chunk = frombuffer(StoredBuffer, ChunkArgs(meta, Uncompressed))
    /\ log = StoredSamples

\* no provider is in use
S3Idle ==
    /\ provider = [bucket |-> "", path |-> <<>>]
    /\ objects = <<>>
    /\ s3last = <<>>

\* no worker runs
ParIdle ==
    /\ pw = <<>>
    /\ pmeta = [length |-> 0, min_shape |-> <<>>, max_shape |-> <<>>,
                chunk_compression |-> Uncompressed]
    /\ pinit = pmeta
    /\ plock = 0

Init ==
    /\ InitFresh \/ InitStored
    /\ tiles = NoTiles
    /\ hist = NoHistory
    /\ last = Call("init", NoArgs, "none")
    /\ ParIdle
    /\ S3Idle

\* a chunk as constructed: no sample, no data
Fresh(c) == is_empty(c) /\ c.data = <<>>

\* the caller is between the tiles of one oversize sample
Tiling == tiles.tiles_yielded < Len(tiles.tiles)

Damaged == hist.partial \/ hist.used

\* the calls on a damaged chunk are followed MaxAfter deep
Followed == Damaged => hist.after < MaxAfter

SameContents(c, d) == c.shapes = d.shapes /\ c.bpos = d.bpos /\ c.data = d.data

\* hist after a call that took the chunk from c to d and returned ret
Record(c, d, ret, used, rewritten) ==
    [partial   |-> hist.partial \/ (ret = "raise" /\ ~SameContents(c, d)),
     used      |-> hist.used \/ used,
     after     |-> IF Damaged THEN hist.after + 1 ELSE 0,
     rewritten |-> hist.rewritten \/ rewritten]

ExtendIfHasSpace(s) ==
    LET r == extend_if_has_space(chunk, meta, s)
    IN  /\ chunk.compression = Uncompressed
        /\ ~Tiling
        /\ Followed
        /\ meta.length < MaxLength
        /\ num_samples(chunk) < MaxSamples
        /\ chunk' = r.c
        /\ meta' = r.m
        /\ log' = IF r.ret = "1"
                  THEN Append(log, [shape |-> r.shape, bytes |-> s.bytes]) ELSE log
        /\ hist' = Record(chunk, r.c, r.ret, FALSE, FALSE)
        /\ last' = Call("extend", [i |-> 0, shape |-> r.shape, bytes |-> s.bytes,
                                   given |-> s.shape], r.ret)
        /\ tiles' = NoTiles
        /\ UNCHANGED <<pvars, svars>>

ExtendImage(s) ==
    LET r == extend_if_has_space_image(chunk, meta, s)
    IN  /\ chunk.compression = ImageCompression
        /\ Followed
        /\ meta.length < MaxLength
        /\ num_samples(chunk) < MaxSamples
        /\ chunk' = r.c
        /\ meta' = r.m
        /\ log' = IF r.ret = "1"
                  THEN Append(log, [shape |-> r.shape, bytes |-> s.bytes]) ELSE log
        /\ hist' = Record(chunk, r.c, r.ret, FALSE, FALSE)
        /\ last' = Call("extend_image", [i |-> 0, shape |-> r.shape, bytes |-> s.bytes,
                                         given |-> s.shape], r.ret)
        /\ UNCHANGED tiles
        /\ UNCHANGED <<pvars, svars>>

\* extend_if_has_space for a sample over the budget: the serializer returns a
\* SampleTiles handle and nothing is admitted
ExtendOversize(t) ==
    /\ chunk.compression = Uncompressed
    /\ ~Tiling
    /\ Followed
    /\ meta.length < MaxLength
    /\ chunk' = prepare_for_write(chunk)
    /\ tiles' = IF check_sample_shape(meta, t.sample_shape)
                THEN SampleTilesObject(t, meta.length) ELSE NoTiles
    /\ last' = Call("extend_oversize",
                    [NoArgs EXCEPT !.shape = t.sample_shape, !.given = t.sample_shape],
                    IF check_sample_shape(meta, t.sample_shape) THEN "tiles" ELSE "raise")
    /\ hist' = Record(chunk, chunk, "none", FALSE, FALSE)
    /\ UNCHANGED <<meta, log>>
    /\ UNCHANGED <<pvars, svars>>

UpdateSample(i, new_buffer, new_shape) ==
    LET r == update_sample(chunk, meta, i, new_buffer, new_shape)
    IN  /\ chunk.compression = Uncompressed
        /\ ~Tiling
        /\ Followed
        /\ i < num_samples(chunk)
        /\ i < bp_num_samples(chunk.bpos)
        /\ chunk' = r.c
        /\ meta' = r.m
        /\ log' = IF r.ret = "ok" /\ i < Len(log)
                  THEN [log EXCEPT ![i + 1] = [shape |-> new_shape, bytes |-> new_buffer]]
                  ELSE log
        /\ hist' = Record(chunk, r.c, r.ret, FALSE, r.ret = "ok")
        /\ last' = Call("update", [i |-> i, shape |-> new_shape, bytes |-> new_buffer,
                                   given |-> new_shape], r.ret)
        /\ tiles' = NoTiles
        /\ UNCHANGED <<pvars, svars>>

WriteTile ==
    LET r == write_tile(chunk, meta, tiles)
    IN  /\ Tiling
        /\ Followed
        /\ num_samples(chunk) < MaxSamples
        /\ chunk' = r.c
        /\ meta' = r.m
        /\ tiles' = [r.sample EXCEPT !.fresh = @ /\ Fresh(chunk)]
        /\ log' = IF r.ret = "ok" THEN Append(log, current_tile(r.sample)) ELSE log
        /\ hist' = Record(chunk, r.c, r.ret, ~Fresh(chunk), TRUE)
        /\ last' = Call("write_tile", NoArgs, r.ret)
        /\ UNCHANGED <<pvars, svars>>

\* the caller rotates to a fresh chunk of the same tensor
NewChunk ==
    /\ chunk' = NewChunkObject(ChunkArgs(meta, meta.chunk_compression))
    /\ log' = <<>>
    /\ hist' = NoHistory
    /\ last' = Call("new", NoArgs, "none")
    /\ tiles' = IF Tiling THEN tiles ELSE NoTiles
    /\ UNCHANGED meta
    /\ UNCHANGED <<pvars, svars>>

Copy ==
    /\ ~Tiling
    /\ Followed
    /\ chunk' = copy(chunk, ChunkArgs(meta, chunk.compression))
    /\ last' = Call("copy", NoArgs, "none")
    /\ tiles' = NoTiles
    /\ hist' = Record(chunk, chunk, "none", FALSE, FALSE)
    /\ UNCHANGED <<meta, log>>
    /\ UNCHANGED <<pvars, svars>>

PrepareForWrite ==
    /\ ~Tiling
    /\ Followed
    /\ chunk' = prepare_for_write(chunk)
    /\ last' = Call("prepare_for_write", NoArgs, "none")
    /\ tiles' = NoTiles
    /\ hist' = Record(chunk, chunk, "none", FALSE, FALSE)
    /\ UNCHANGED <<meta, log>>
    /\ UNCHANGED <<pvars, svars>>

Extend == \E s \in Samples : ExtendIfHasSpace(s)

ExtendImages == \E s \in ImageSamples : ExtendImage(s)

Oversize == \E t \in TiledSamples : ExtendOversize(t)

Update ==
    \E i \in 0..(MaxSamples - 1), b \in UpdateBuffers, sh \in UpdateShapes :
        UpdateSample(i, b, sh)

Next ==
    \/ Extend
    \/ ExtendImages
    \/ Oversize
    \/ Update
    \/ WriteTile
    \/ NewChunk
    \/ Copy
    \/ PrepareForWrite

Spec == Init /\ [][Next]_vars

(***************************************************************************)
(* Properties                                                              *)
(***************************************************************************)
\* the chunk has only been through calls that returned normally, and write_tile
\* only ran on it when it was fresh
Sound == ~hist.used /\ ~hist.partial

\* read_sample on a chunk under image compression: the image is found in the
\* container, its shape in the shape encoder
read_sample_image(c, local_sample_index) ==
    [shape |-> shapes_get(c.shapes, local_sample_index),
     bytes |-> decompress_images(c.data)[local_sample_index + 1]]

\* C1 (faithful read-back): for every sample written to the chunk, in the order
\* written, the shape encoder returns its shape, the byte-positions encoder a
\* range as long as its bytes, and read_sample exactly its bytes.
C1_FaithfulReadBack ==
    Sound =>
        /\ num_samples(chunk) = Len(log)
        /\ \A i \in 0..(Len(log) - 1) :
              /\ shapes_get(chunk.shapes, i) = log[i + 1].shape
              /\ IF chunk.compression = Uncompressed
                 THEN /\ i < bp_num_samples(chunk.bpos)
                      /\ bp_get(chunk.bpos, i)[2] - bp_get(chunk.bpos, i)[1]
                            = Len(log[i + 1].bytes)
                      /\ read_sample(chunk, i) = log[i + 1]
                 ELSE read_sample_image(chunk, i) = log[i + 1]

\* three admissions of different shapes and sizes, and nothing else, on a chunk
C1_Witness ==
    /\ Sound /\ ~hist.rewritten
    /\ last.op = "extend" /\ last.ret = "1"
    /\ Len(log) = 3
    /\ log[1].shape # log[2].shape
    /\ Len(log[1].bytes) # Len(log[2].bytes)
    /\ log[3] # log[2]

\* C2 (update isolation): a successful update_sample(i, buf, shape) on a chunk
\* of N samples leaves N samples, every sample j # i reading back as before,
\* and sample i reading back as (buf, shape).
C2_UpdateIsolation ==
    [][ (last'.op = "update" /\ last'.ret = "ok" /\ Sound) =>
          /\ num_samples(chunk') = num_samples(chunk)
          /\ bp_num_samples(chunk'.bpos) = num_samples(chunk)
          /\ \A j \in 0..(num_samples(chunk) - 1) :
                read_sample(chunk', j) =
                    IF j = last'.args.i
                    THEN [shape |-> last'.args.shape, bytes |-> last'.args.bytes]
                    ELSE read_sample(chunk, j) ]_vars

\* the middle one of three samples has been replaced by a longer buffer
C2_Witness ==
    /\ Sound
    /\ last.op = "update" /\ last.ret = "ok" /\ last.args.i = 1
    /\ num_samples(chunk) = 3
    /\ Len(last.args.bytes) > max_chunk_size
    /\ read_sample(chunk, 1).bytes = last.args.bytes

C5_RoundTrip ==
    LET d == frombuffer(tobytes(chunk), ChunkArgs(meta, chunk.compression))
    IN  /\ d.version = chunk.version
        /\ d.shapes = chunk.shapes
        /\ d.bpos = chunk.bpos
        /\ d.data = chunk.data
        /\ copy(chunk, ChunkArgs(meta, chunk.compression)) = d

\* the copy of a chunk an older release wrote
C5_Witness ==
    /\ last.op = "copy"
    /\ chunk.version = OldVersion
    /\ chunk.kind = "memoryview"
    /\ num_samples(chunk) = 2

C7_AdmissionTest ==
    /\ \A n \in 0..max_chunk_size, b \in 0..2 :
          can_fit_sample(chunk, n, b) <=> (Len(chunk.data) + b + n < min_chunk_size)
    /\ \A s \in Samples :
          ( /\ chunk.compression = Uncompressed
            /\ ~is_empty(chunk)
            /\ check_sample_shape(meta, s.shape)
            /\ Len(chunk.data) + Len(s.bytes) = min_chunk_size )
          => extend_if_has_space(chunk, meta, s).ret = "0"
    /\ (Sound /\ ~hist.rewritten /\ num_samples(chunk) >= 2)
          => Len(chunk.data) < min_chunk_size

\* a sample that would have filled the chunk to exactly min_chunk_size was
\* turned away
C7_Witness ==
    /\ Sound /\ ~hist.rewritten
    /\ last.op = "extend" /\ last.ret = "0"
    /\ Len(chunk.data) + Len(last.args.bytes) = min_chunk_size

\* C8 (admission rotate): on an empty chunk extend_if_has_space admits a sample
\* of min_chunk_size bytes or more (and max_chunk_size at most) and returns 1;
\* on a chunk holding a sample and failing the admission test it returns 0 and
\* the data block, both encoders and TensorMeta.length stay as they were.
C8_AdmissionRotate ==
    [][ /\ ( /\ last'.op = "extend"
             /\ is_empty(chunk)
             /\ Len(last'.args.bytes) >= min_chunk_size
             /\ Len(last'.args.bytes) <= max_chunk_size
             /\ check_sample_shape(meta, last'.args.shape) )
           => /\ last'.ret = "1"
              /\ num_samples(chunk') = 1
              /\ chunk'.data = last'.args.bytes
              /\ meta'.length = meta.length + 1
        /\ ( /\ last'.op \in {"extend", "extend_image"}
             /\ ~is_empty(chunk)
             /\ Len(chunk.data) + incoming_nbytes(chunk, last'.args) >= min_chunk_size
             /\ check_sample_shape(meta, last'.args.shape) )
           => /\ last'.ret = "0"
              /\ SameContents(chunk, chunk')
              /\ meta'.length = meta.length ]_vars

\* a chunk took one sample of min_chunk_size bytes when empty, then turned the
\* next sample away
C8_Witness ==
    /\ last.op = "extend" /\ last.ret = "0"
    /\ num_samples(chunk) = 1
    /\ Len(chunk.data) >= min_chunk_size
    /\ ~hist.rewritten

\* C9 (size budget): the data block does not exceed max_chunk_size unless the
\* chunk holds exactly one sample (or tile) that by itself exceeds
\* min_chunk_size.
C9_SizeBudget ==
    \/ Len(chunk.data) <= max_chunk_size
    \/ (num_samples(chunk) = 1 /\ Len(chunk.data) > min_chunk_size)

\* C10 (tiling bookkeeping): while an oversize sample is written tile by tile
\* into fresh chunks, each chunk registers the tile's shape and byte count,
\* TensorMeta.length is one more than before the sample, and only the first
\* tile touches TensorMeta, widening the envelope by the whole sample's shape.
C10_TilingBookkeeping ==
    [][ (last'.op = "write_tile" /\ last'.ret = "ok" /\ tiles'.fresh) =>
          LET t == current_tile(tiles')
          IN  /\ num_samples(chunk') = 1
              /\ bp_num_samples(chunk'.bpos) = 1
              /\ shapes_get(chunk'.shapes, 0) = t.shape
              /\ bp_get(chunk'.bpos, 0) = <<0, Len(t.bytes)>>
              /\ meta'.length = tiles'.length0 + 1
              /\ tiles'.envelope_calls = 1
              /\ IF is_first_write(tiles')
                 THEN /\ meta'.length = meta.length + 1
                      /\ Len(meta'.max_shape) = Len(tiles'.sample_shape)
                      /\ \A k \in 1..Len(tiles'.sample_shape) :
                            /\ meta'.min_shape[k] <= tiles'.sample_shape[k]
                            /\ tiles'.sample_shape[k] <= meta'.max_shape[k]
                 ELSE meta' = meta ]_vars

\* the last of three tiles has been written, each into a fresh chunk
C10_Witness ==
    /\ last.op = "write_tile" /\ last.ret = "ok"
    /\ tiles.fresh
    /\ Len(tiles.tiles) = 3
    /\ is_last_write(tiles)
    /\ meta.length = tiles.length0 + 1

\* C11 (admission monotonicity): over any call that does not reduce
\* num_data_bytes, a can_fit_sample(n) that was false stays false for every
\* n' >= n.
C11_AdmissionMonotone ==
    [][ \A n \in 0..(max_chunk_size + 1) :
          (~can_fit_sample(chunk, n, 0) /\ num_data_bytes(chunk') >= num_data_bytes(chunk))
          => \A n2 \in n..(max_chunk_size + 1) : ~can_fit_sample(chunk', n2, 0) ]_vars

\* a chunk of several samples turned a sample away, and still would, as it
\* would a larger one
C11_Witness ==
    /\ last.op = "extend" /\ last.ret = "0"
    /\ num_samples(chunk) >= 2
    /\ can_fit_sample(chunk, 0, 0)
    /\ ~can_fit_sample(chunk, Len(last.args.bytes), 0)
    /\ ~can_fit_sample(chunk, max_chunk_size, 0)

\* C12 (shape check on update): update_sample(i, buf, shape) raises exactly
\* when len(shape) is not the dimensionality of the shape stored at i, and the
\* data block, both encoders and TensorMeta are then as they were.
C12_ShapeCheckOnUpdate ==
    [][ last'.op = "update" =>
          /\ (last'.ret = "raise") <=>
                (Len(last'.args.shape) # Len(shapes_get(chunk.shapes, last'.args.i)))
          /\ (last'.ret = "raise") => (SameContents(chunk, chunk') /\ meta' = meta) ]_vars

\* a shape of two axes was refused for a sample of one axis, the last of three
C12_Witness ==
    /\ last.op = "update" /\ last.ret = "raise"
    /\ last.args.i = 2
    /\ num_samples(chunk) = 3
    /\ Len(last.args.shape) = 2
    /\ Len(shapes_get(chunk.shapes, 2)) = 1

C14_EnvelopeMonotone ==
    [][ meta.max_shape # <<>> =>
          /\ Len(meta'.max_shape) = Len(meta.max_shape)
          /\ Len(meta'.min_shape) = Len(meta.min_shape)
          /\ \A k \in 1..Len(meta.max_shape) :
                /\ meta'.max_shape[k] >= meta.max_shape[k]
                /\ meta'.min_shape[k] <= meta.min_shape[k] ]_vars

\* the first tile of an oversize sample has widened an envelope that an
\* admission had set
C14_Witness ==
    /\ last.op = "write_tile" /\ last.ret = "ok"
    /\ is_first_write(tiles)
    /\ meta.length >= 2
    /\ meta.max_shape = <<3, 2>>
    /\ meta.min_shape = <<1, 2>>

\* the calls that write to the chunk through prepare_for_write
Mutating == {"extend", "extend_image", "extend_oversize", "update", "prepare_for_write"}

\* C15 without its first part: a mutating call on a chunk whose data block is
\* a borrowed view copies it once into an owned buffer, prepare_for_write
\* keeping the contents; a call that changes the contents never leaves a
\* borrowed view; a call on a chunk that owns its buffer does not copy.
Lifecycle ==
    /\ (last'.op \in Mutating /\ chunk.kind = "memoryview")
          => /\ chunk'.kind = "bytearray"
             /\ chunk'.copies = 1
             /\ last'.op = "prepare_for_write" => SameContents(chunk, chunk')
    /\ (last'.op # "new" /\ ~SameContents(chunk, chunk'))
          => chunk'.kind # "memoryview"
    /\ (last'.op \in Mutating /\ chunk.kind # "memoryview")
          => /\ chunk'.copies = chunk.copies
             /\ chunk'.kind = chunk.kind

C16_FastForward ==
    [][ last'.op = "prepare_for_write" =>
          /\ chunk'.version = CurrentVersion
          /\ deserialize_chunk(tobytes(chunk')).version = CurrentVersion
          /\ SameContents(chunk, chunk')
          /\ \A i \in 0..(bp_num_samples(chunk.bpos) - 1) :
                /\ i < num_samples(chunk)
                /\ read_sample(chunk', i) = read_sample(chunk, i)
                /\ bp_get(chunk'.bpos, i) = bp_get(chunk.bpos, i)
          /\ chunk.version = CurrentVersion => chunk'.version = chunk.version
          /\ prepare_for_write(chunk') = chunk' ]_vars

\* prepare_for_write has run on the chunk loaded from the older release's
\* buffer: its samples are the stored ones, its version the current one
C16_Witness ==
    /\ last.op = "prepare_for_write"
    /\ chunk.version = CurrentVersion
    /\ chunk.copies = 1
    /\ ~hist.rewritten
    /\ log = StoredSamples
    /\ read_sample(chunk, 0) = StoredSamples[1]
    /\ deserialize_chunk(StoredBuffer).version = OldVersion

\* C17 (nbytes faithfulness): nbytes is the length of the buffer tobytes
\* returns, in every state of the chunk.
C17_NbytesFaithful ==
    nbytes(chunk) = Len(tobytes(chunk))

\* a chunk of an older version, read by frombuffer and serialized again
C17_Witness ==
    /\ chunk.version = OldVersion
    /\ chunk.kind = "memoryview"
    /\ num_samples(chunk) = 2
    /\ nbytes(chunk) = Len(StoredBuffer)

(***************************************************************************)
(* Chunks written in parallel                                              *)
(*                                                                         *)
(* ThreadProvider.map hands one function call to each thread of its pool.  *)
(* Each worker extends a chunk of its own; the chunks hold one TensorMeta, *)
(* and a worker mutates it only while it holds the caller's lock.  The     *)
(* steps of register_in_meta_and_headers are taken one at a time, the read *)
(* and the write of "length += 1" apart.                                   *)
(***************************************************************************)
Workers == 1..2

\* samples each worker offers to its chunk
PerWorker == 2

\* the samples the workers serialize: one dimensionality, as one tensor has
ParSamples == { s \in Samples : Len(s.shape) = 1 }

ParMetas ==
    { [length |-> 0, min_shape |-> <<>>, max_shape |-> <<>>,
       chunk_compression |-> Uncompressed],
      [length |-> 2, min_shape |-> <<2>>, max_shape |-> <<2>>,
       chunk_compression |-> Uncompressed] }

NoSample == [shape |-> <<>>, bytes |-> <<>>]

InitPar ==
    /\ meta = [length |-> 0, min_shape |-> <<>>, max_shape |-> <<>>,
               chunk_compression |-> Uncompressed]
    /\ chunk = NewChunkObject(ChunkArgs(meta, Uncompressed))
    /\ log = <<>>
    /\ tiles = NoTiles
    /\ hist = NoHistory
    /\ last = Call("init", NoArgs, "none")
    /\ pmeta \in ParMetas
    /\ pinit = pmeta
    /\ pw = [w \in Workers |->
               [pc |-> "idle", chunk |-> NewChunkObject(ChunkArgs(pmeta, Uncompressed)),
                sample |-> NoSample, length |-> 0, tried |-> <<>>, log |-> <<>>]]
    /\ plock = 0
    /\ S3Idle

\* a worker's call of extend_if_has_space, up to the chunk's own headers:
\* all of it touches the worker's chunk only
ParExtend(w, s) ==
    LET c0    == prepare_for_write(pw[w].chunk)
        shape == normalize_shape(s.shape)
        c1    == [c0 EXCEPT !.data = @ \o s.bytes]
        r     == register_sample_to_headers(c1, Some(Len(s.bytes)), shape)
        admit == /\ check_sample_shape(pmeta, shape)
                 /\ is_empty(c0) \/ can_fit_sample(c0, incoming_nbytes(c0, s), 0)
    IN  /\ pw[w].pc = "idle"
        /\ Len(pw[w].tried) < PerWorker
        /\ pw' = [pw EXCEPT ![w].tried = Append(@, s),
                            ![w].chunk = IF admit THEN r.c ELSE c0,
                            ![w].sample = IF admit THEN [s EXCEPT !.shape = shape]
                                          ELSE NoSample,
                            ![w].pc = IF admit THEN "lock" ELSE "idle"]
        /\ UNCHANGED <<pmeta, pinit, plock, cvars, svars>>

\* the caller's lock on the TensorMeta
ParAcquire(w) ==
    /\ pw[w].pc = "lock"
    /\ plock = 0
    /\ plock' = w
    /\ pw' = [pw EXCEPT ![w].pc = "read"]
    /\ UNCHANGED <<pmeta, pinit, cvars, svars>>

\* self.tensor_meta.length += 1: the read
ParReadLength(w) ==
    /\ pw[w].pc = "read"
    /\ pw' = [pw EXCEPT ![w].length = pmeta.length, ![w].pc = "write"]
    /\ UNCHANGED <<pmeta, pinit, plock, cvars, svars>>

\* self.tensor_meta.length += 1: the write
ParWriteLength(w) ==
    /\ pw[w].pc = "write"
    /\ pmeta' = [pmeta EXCEPT !.length = pw[w].length + 1]
    /\ pw' = [pw EXCEPT ![w].pc = "interval"]
    /\ UNCHANGED <<pinit, plock, cvars, svars>>

\* self.tensor_meta.update_shape_interval(shape)
ParUpdateShapeInterval(w) ==
    /\ pw[w].pc = "interval"
    /\ pmeta' = update_shape_interval(pmeta, pw[w].sample.shape).m
    /\ pw' = [pw EXCEPT ![w].pc = "unlock"]
    /\ UNCHANGED <<pinit, plock, cvars, svars>>

\* the call returns 1 and the caller gives the lock back
ParRelease(w) ==
    /\ pw[w].pc = "unlock"
    /\ plock' = 0
    /\ pw' = [pw EXCEPT ![w].log = Append(@, pw[w].sample),
                        ![w].sample = NoSample,
                        ![w].pc = "idle"]
    /\ UNCHANGED <<pmeta, pinit, cvars, svars>>

ParExtends == \E w \in Workers : \E s \in ParSamples : ParExtend(w, s)
ParAcquires == \E w \in Workers : ParAcquire(w)
ParReadLengths == \E w \in Workers : ParReadLength(w)
ParWriteLengths == \E w \in Workers : ParWriteLength(w)
ParUpdateShapeIntervals == \E w \in Workers : ParUpdateShapeInterval(w)
ParReleases == \E w \in Workers : ParRelease(w)

NextPar ==
    \/ ParExtends
    \/ ParAcquires
    \/ ParReadLengths
    \/ ParWriteLengths
    \/ ParUpdateShapeIntervals
    \/ ParReleases

SpecPar == InitPar /\ [][NextPar]_vars

\* what a worker that ran alone, on a tensor of its own, would have made of
\* the samples it offered: its chunk, and the samples the chunk took
RECURSIVE Alone(_, _, _, _)
Alone(c, m, taken, samples) ==
    IF samples = <<>> THEN [c |-> c, log |-> taken]
    ELSE LET r == extend_if_has_space(c, m, samples[1])
         IN  Alone(r.c, r.m,
                   IF r.ret = "1" THEN Append(taken, samples[1]) ELSE taken,
                   Tail(samples))

RECURSIVE Widened(_, _)
Widened(m, shapes) ==
    IF shapes = <<>> THEN m
    ELSE Widened(update_shape_interval(m, shapes[1]).m, Tail(shapes))

ParQuiet == pw # <<>> /\ \A w \in Workers : pw[w].pc = "idle"

S3Provider(root) == [bucket |-> Head(root), path |-> Tail(root)]

Roots == { <<"b">>, <<"b", "p">>, <<"b", "p", "q">> }

\* posixpath.join of two relative paths
posixpath_join(a, b) == a \o b

\* the keys of the bucket, in the order S3 lists them
Keys ==
    << <<"d", "k">>, <<"k">>, <<"p", "d", "k">>, <<"p", "k">>,
       <<"p", "q", "d", "k">>, <<"p", "q", "k">>, <<"pq", "k">> >>

KeySet == { Keys[i] : i \in 1..Len(Keys) }

\* paths a caller hands to the provider; NotAPath is a value that is no str
NotAPath == <<"(None)">>
Paths == { <<"k">>, <<"d", "k">>, NotAPath }

\* contents a caller hands to the provider; NotBytes is a value no
\* memoryview can be made of
NotBytes == <<-1>>
Contents == { <<1>>, <<2>>, NotBytes }

\* what goes wrong in S3 or on the way to it during a call: nothing, an
\* error S3 answers with (a ClientError other than NoSuchKey), or an
\* exception that is no ClientError
Faults == { "none", "ClientError", "Exception" }

Answer(exc, code, value) == [exc |-> exc, code |-> code, value |-> value]

Faulty(fault) ==
    IF fault = "ClientError" THEN Answer("ClientError", "AccessDenied", None)
    ELSE Answer("Exception", "", None)

\* client.get_object(...)["Body"].read()
get_object(objs, key, fault) ==
    IF fault # "none" THEN Faulty(fault)
    ELSE IF objs[key] = None THEN Answer("ClientError", "NoSuchKey", None)
    ELSE Answer("none", "", objs[key])

\* client.put_object, client.delete_object and client.list_objects_v2 answer
\* unless something goes wrong
client_call(fault) ==
    IF fault # "none" THEN Faulty(fault) ELSE Answer("none", "", None)

\* the TypeError of posixpath.join on a path that is no str
TypeError == Answer("Exception", "TypeError", None)

Outcome(objs, answer, raised, value) ==
    [objects |-> objs, answer |-> answer, raised |-> raised, value |-> value]

\* __setitem__
setitem(p, objs, path, content, fault) ==
    LET key    == posixpath_join(p.path, path)
        answer == IF path = NotAPath \/ content = NotBytes THEN TypeError
                  ELSE client_call(fault)
    IN  IF answer.exc # "none"
        THEN Outcome(objs, answer, "S3SetError", None)
        ELSE Outcome([objs EXCEPT ![key] = Some(content)], answer, "none", None)

\* __getitem__, with every ClientError reported as S3GetError
getitem_no_key_error(p, objs, path, fault) ==
    LET key    == posixpath_join(p.path, path)
        answer == IF path = NotAPath THEN TypeError ELSE get_object(objs, key, fault)
    IN  IF answer.exc # "none"
        THEN Outcome(objs, answer, "S3GetError", None)
        ELSE Outcome(objs, answer, "none", answer.value)

\* __getitem__
getitem(p, objs, path, fault) ==
    LET key    == posixpath_join(p.path, path)
        answer == IF path = NotAPath THEN TypeError ELSE get_object(objs, key, fault)
    IN  IF answer.exc = "ClientError"
        THEN IF answer.code = "NoSuchKey"
             THEN Outcome(objs, answer, "KeyError", None)
             ELSE Outcome(objs, answer, "S3GetError", None)
        ELSE IF answer.exc = "Exception"
        THEN Outcome(objs, answer, "S3GetError", None)
        ELSE Outcome(objs, answer, "none", answer.value)

\* __delitem__: S3 deletes a key that is not there without complaint
delitem(p, objs, path, fault) ==
    LET key    == posixpath_join(p.path, path)
        answer == IF path = NotAPath THEN TypeError ELSE client_call(fault)
    IN  IF answer.exc # "none"
        THEN Outcome(objs, answer, "S3DeletionError", None)
        ELSE Outcome([objs EXCEPT ![key] = None], answer, "none", None)

\* len(self.path.split("/")): "".split("/") is [""]
len_path(p) == IF p.path = <<>> THEN 1 ELSE Len(p.path)

\* a.startswith(b), for the names of path components
startswith(a, b) == a = b \/ <<a, b>> \in { <<"pq", "p">> }

\* Prefix=self.path: S3 compares the strings, so that the last component of
\* the prefix may be the beginning of a longer component of the key
has_prefix(key, prefix) ==
    \/ prefix = <<>>
    \/ /\ Len(prefix) <= Len(key)
       /\ SubSeq(key, 1, Len(prefix) - 1) = SubSeq(prefix, 1, Len(prefix) - 1)
       /\ startswith(key[Len(prefix)], prefix[Len(prefix)])

RECURSIVE list_objects_v2(_, _, _)
list_objects_v2(objs, prefix, i) ==
    IF i > Len(Keys) THEN <<>>
    ELSE (IF objs[Keys[i]] # None /\ has_prefix(Keys[i], prefix) THEN <<Keys[i]>> ELSE <<>>)
         \o list_objects_v2(objs, prefix, i + 1)

\* _list_keys
list_keys(p, objs, fault) ==
    LET answer == client_call(fault)
        items  == list_objects_v2(objs, p.path, 1)
    IN  IF answer.exc # "none"
        THEN Outcome(objs, answer, "S3ListError", None)
        ELSE Outcome(objs, answer, "none",
                     [i \in 1..Len(items) |->
                         SubSeq(items[i], len_path(p) + 1, Len(items[i]))])

\* __len__
len(p, objs, fault) ==
    LET r == list_keys(p, objs, fault)
    IN  IF r.raised # "none" THEN r ELSE [r EXCEPT !.value = Len(@)]

S3Call(op, path, content, fault, missing, r) ==
    [op |-> op, path |-> path, content |-> content, fault |-> fault,
     missing |-> missing, answer |-> r.answer, raised |-> r.raised, value |-> r.value]

\* whether the bucket holds no object under the key the path joins to
Missing(path) ==
    path # NotAPath /\ objects[posixpath_join(provider.path, path)] = None

\* what the bucket holds when the provider is made
OtherObjects == { {}, {<<"d", "k">>}, {<<"pq", "k">>} }

InitS3 ==
    /\ InitFresh
    /\ meta.chunk_compression = Uncompressed
    /\ tiles = NoTiles
    /\ hist = NoHistory
    /\ last = Call("init", NoArgs, "none")
    /\ ParIdle
    /\ \E root \in Roots : provider = S3Provider(root)
    /\ \E others \in OtherObjects :
          objects = [k \in KeySet |-> IF k \in others THEN Some(<<1>>) ELSE None]
    /\ s3last = S3Call("init", <<>>, <<>>, "none", FALSE,
                       Outcome(objects, Answer("none", "", None), "none", None))

S3SetItem(path, content, fault) ==
    LET r == setitem(provider, objects, path, content, fault)
    IN  /\ objects' = r.objects
        /\ s3last' = S3Call("set", path, content, fault, Missing(path), r)
        /\ UNCHANGED <<provider, cvars, pvars>>

S3GetItem(path, fault) ==
    LET r == getitem(provider, objects, path, fault)
    IN  /\ objects' = r.objects
        /\ s3last' = S3Call("get", path, <<>>, fault, Missing(path), r)
        /\ UNCHANGED <<provider, cvars, pvars>>

S3DelItem(path, fault) ==
    LET r == delitem(provider, objects, path, fault)
    IN  /\ objects' = r.objects
        /\ s3last' = S3Call("delete", path, <<>>, fault, Missing(path), r)
        /\ UNCHANGED <<provider, cvars, pvars>>

S3ListKeys(fault) ==
    LET r == list_keys(provider, objects, fault)
    IN  /\ objects' = r.objects
        /\ s3last' = S3Call("list", <<>>, <<>>, fault, FALSE, r)
        /\ UNCHANGED <<provider, cvars, pvars>>

S3Len(fault) ==
    LET r == len(provider, objects, fault)
    IN  /\ objects' = r.objects
        /\ s3last' = S3Call("len", <<>>, <<>>, fault, FALSE, r)
        /\ UNCHANGED <<provider, cvars, pvars>>

S3Set == \E path \in Paths : \E content \in Contents : \E fault \in Faults :
            S3SetItem(path, content, fault)
S3Get == \E path \in Paths : \E fault \in Faults : S3GetItem(path, fault)
S3Del == \E path \in Paths : \E fault \in Faults : S3DelItem(path, fault)
S3List == \E fault \in Faults : S3ListKeys(fault)
S3Length == \E fault \in Faults : S3Len(fault)

NextS3 ==
    \/ S3Set
    \/ S3Get
    \/ S3Del
    \/ S3List
    \/ S3Length

SpecS3 == InitS3 /\ [][NextS3]_vars

\* something went wrong during the last call: in S3 or on the way to it, or
\* with the arguments the caller gave
S3Failed ==
    \/ s3last.fault # "none"
    \/ s3last.path = NotAPath
    \/ s3last.content = NotBytes

\* C19 (storage error mapping): a get of a missing key raises KeyError and
\* every other get failure the get error; every set failure raises the set
\* error, every delete failure the delete error, every list failure the list
\* error; no other exception escapes, a call during which nothing fails
\* raises nothing, and deleting a missing key does not raise KeyError.
C19_ErrorMapping ==
    /\ s3last.op = "get" =>
          s3last.raised = IF S3Failed THEN "S3GetError"
                          ELSE IF s3last.missing THEN "KeyError"
                          ELSE "none"
    /\ s3last.op = "set" =>
          s3last.raised = IF S3Failed THEN "S3SetError" ELSE "none"
    /\ s3last.op = "delete" =>
          s3last.raised = IF S3Failed THEN "S3DeletionError" ELSE "none"
    /\ s3last.op \in {"list", "len"} =>
          s3last.raised = IF S3Failed THEN "S3ListError" ELSE "none"

\* a provider rooted below its bucket got a key no object is under: S3
\* answered NoSuchKey and the get raised KeyError
C19_Witness ==
    /\ s3last.op = "get"
    /\ s3last.missing
    /\ s3last.raised = "KeyError"
    /\ s3last.answer.code = "NoSuchKey"
    /\ provider.path = <<"p">>

\* C20 (write_tile keeps the chunk invariants): after write_tile on any chunk,
\* fresh or already holding samples, the registered byte ranges follow one
\* another from 0 and end at len(data), the two encoders hold the same number
\* of samples, and the data block is the bytes of the samples the encoders
\* describe, the last of them the tile written.
C20_WriteTileInvariants ==
    (last.op = "write_tile" /\ last.ret = "ok") =>
        LET n == bp_num_samples(chunk.bpos)
        IN  /\ shapes_num_samples(chunk.shapes) = n
            /\ \A i \in 0..(n - 1) :
                  /\ bp_get(chunk.bpos, i)[1] <= bp_get(chunk.bpos, i)[2]
                  /\ bp_get(chunk.bpos, i)[1] =
                        IF i = 0 THEN 0 ELSE bp_get(chunk.bpos, i - 1)[2]
            /\ (IF n = 0 THEN 0 ELSE bp_get(chunk.bpos, n - 1)[2]) = Len(chunk.data)
            /\ n >= 1
            /\ read_sample(chunk, n - 1) = current_tile(tiles)

\* the byte ranges of c follow one another from 0 and end at len(data)
Covered(c) ==
    LET n == bp_num_samples(c.bpos)
    IN  /\ \A j \in 0..(n - 1) :
              /\ bp_get(c.bpos, j)[1] <= bp_get(c.bpos, j)[2]
              /\ bp_get(c.bpos, j)[1] = IF j = 0 THEN 0 ELSE bp_get(c.bpos, j - 1)[2]
        /\ (IF n = 0 THEN 0 ELSE bp_get(c.bpos, n - 1)[2]) = Len(c.data)

\* C21 (update splice arithmetic): an update_sample(i, buf, shape) that puts
\* new_n bytes in the place of sample i's old_n bytes, on a chunk whose byte
\* ranges cover its data, makes len(data) old_len - old_n + new_n, leaves the
\* range of every sample before i as it was, keeps the start of sample i,
\* moves the start and the end of every sample after i by new_n - old_n, and
\* the ranges still cover [0, len(data)) without gap or overlap.
C21_UpdateSplice ==
    [][ (last'.op = "update" /\ last'.ret = "ok" /\ Covered(chunk)) =>
          LET i     == last'.args.i
              n     == bp_num_samples(chunk.bpos)
              old   == bp_get(chunk.bpos, i)
              old_n == old[2] - old[1]
              new_n == Len(last'.args.bytes)
          IN  /\ Len(chunk'.data) = Len(chunk.data) - old_n + new_n
              /\ bp_num_samples(chunk'.bpos) = n
              /\ \A j \in 0..(n - 1) :
                    LET was == bp_get(chunk.bpos, j)
                        is  == bp_get(chunk'.bpos, j)
                    IN  /\ j < i => is = was
                        /\ j = i => is = <<was[1], was[1] + new_n>>
                        /\ j > i => is = <<was[1] + new_n - old_n, was[2] + new_n - old_n>>
              /\ Covered(chunk') ]_vars

\* the middle one of three samples has grown to eight bytes
C21_Witness ==
    /\ last.op = "update" /\ last.ret = "ok"
    /\ last.args.i = 1
    /\ num_samples(chunk) = 3
    /\ Len(last.args.bytes) = 8
    /\ Len(chunk.data) = 10
    /\ bp_get(chunk.bpos, 2) = <<9, 10>>
    /\ Covered(chunk)

(***************************************************************************)
(* serialize_sample                                                        *)
(*                                                                         *)
(* The tensors of the model are not text-like.  An incoming sample is a    *)
(* Sample object (an image read from a file), raw bytes, a numpy array or  *)
(* base type, a SampleTiles handle, or something else.                     *)
(***************************************************************************)
Incoming(type, shape) == [type |-> type, shape |-> shape, bytes |-> <<1>>]

IncomingSamples ==
    { Incoming("Sample", <<>>), Incoming("Sample", <<1, 2>>), Incoming("Sample", <<2, 2>>),
      Incoming("Sample", <<2, 2, 3>>),
      Incoming("ndarray", <<>>), Incoming("ndarray", <<1>>), Incoming("ndarray", <<2>>),
      Incoming("ndarray", <<2, 2>>),
      Incoming("ndarray", <<2, 2, 3>>),
      Incoming("bytes", NoShape),
      Incoming("SampleTiles", <<3, 2>>),
      Incoming("str", NoShape) }

\* serialize_sample: the chunk (convert_to_rgb may set its num_dims), the
\* shape returned, and whether the call returned or raised TypeError
serialize_sample(c, incoming_sample) ==
    IF incoming_sample.type = "Sample"
    THEN LET cv == convert_to_rgb(c, incoming_sample.shape)
         IN  [c |-> cv.c, shape |-> normalize_shape(cv.shape), ret |-> "ok"]
    ELSE IF incoming_sample.type = "bytes"
    THEN [c |-> c, shape |-> normalize_shape(NoShape), ret |-> "ok"]
    ELSE IF incoming_sample.type = "ndarray"
    THEN [c |-> c, shape |-> normalize_shape(incoming_sample.shape), ret |-> "ok"]
    ELSE IF incoming_sample.type = "SampleTiles"
    THEN [c |-> c, shape |-> normalize_shape(incoming_sample.shape), ret |-> "ok"]
    ELSE [c |-> c, shape |-> NoShape, ret |-> "raise"]

\* tensors as the chunk that serializes finds them: nothing recorded, or
\* images of two axes, or of three
SerializeMetas ==
    { [length |-> 0, min_shape |-> <<>>, max_shape |-> <<>>],
      [length |-> 1, min_shape |-> <<2, 2>>, max_shape |-> <<2, 2>>],
      [length |-> 1, min_shape |-> <<2, 2, 3>>, max_shape |-> <<2, 2, 3>>] }

InitSerialize ==
    /\ \E compression \in {Uncompressed, ImageCompression} : \E m \in SerializeMetas :
          /\ meta = [length |-> m.length, min_shape |-> m.min_shape,
                     max_shape |-> m.max_shape, chunk_compression |-> compression]
          /\ chunk = NewChunkObject(ChunkArgs(meta, compression))
    /\ log = <<>>
    /\ tiles = NoTiles
    /\ hist = NoHistory
    /\ last = Call("init", NoArgs, "none")
    /\ ParIdle
    /\ S3Idle

SerializeSample(incoming_sample) ==
    LET r == serialize_sample(chunk, incoming_sample)
    IN  /\ chunk' = r.c
        /\ last' = Call("serialize_sample",
                        [i |-> 0, shape |-> r.shape, bytes |-> incoming_sample.bytes,
                         given |-> incoming_sample.shape, type |-> incoming_sample.type,
                         num_dims |-> chunk.num_dims],
                        r.ret)
        /\ UNCHANGED <<meta, tiles, log, hist, pvars, svars>>

Serialize == \E incoming_sample \in IncomingSamples : SerializeSample(incoming_sample)

NextSerialize == Serialize

SpecSerialize == InitSerialize /\ [][NextSerialize]_vars

\* the last call serialized an image of two axes for a chunk that converts
\* grayscale images
GrayscaleCase ==
    /\ last.op = "serialize_sample"
    /\ last.args.type = "Sample"
    /\ Len(last.args.given) = 2
    /\ is_convert_candidate(chunk) /\ CONVERT_GRAYSCALE

\* the last call serialized a sample with the empty shape; the last call
\* serialized raw bytes
EmptyShapeCase ==
    /\ last.op = "serialize_sample" /\ last.ret = "ok"
    /\ last.args.type # "bytes" /\ last.args.given = <<>>

RawBytesCase == last.op = "serialize_sample" /\ last.args.type = "bytes"

\* C22 as stated: an empty shape is returned as (1,), raw bytes get the
\* shape None, and every 2-D image serialized for a chunk that converts
\* grayscale images is returned with a third axis of 1, whatever was
\* serialized before it.
C22_AsStated ==
    /\ EmptyShapeCase => last.args.shape = <<1>>
    /\ RawBytesCase => (last.ret = "ok" /\ last.args.shape = NoShape)
    /\ GrayscaleCase => last.args.shape = last.args.given \o <<1>>

\* C22 (shape normalization in serialize_sample): an empty shape is returned
\* as (1,); raw bytes get the shape None; a 2-D image in a Sample object,
\* serialized for a chunk that converts grayscale images, is returned with a
\* third axis of 1 exactly when the chunk's num_dims is 3, where a chunk
\* without num_dims takes it from the first Sample it serializes; every other
\* shape is returned as given.
C22_ShapeNormalization ==
    /\ EmptyShapeCase => last.args.shape = <<1>>
    /\ RawBytesCase => (last.ret = "ok" /\ last.args.shape = NoShape)
    /\ GrayscaleCase =>
          /\ chunk.num_dims = IF last.args.num_dims = None THEN Some(2)
                              ELSE last.args.num_dims
          /\ last.args.shape = IF chunk.num_dims = Some(3)
                               THEN last.args.given \o <<1>>
                               ELSE last.args.given
    /\ (last.op = "serialize_sample" /\ last.ret = "ok"
        /\ ~GrayscaleCase /\ ~EmptyShapeCase) => last.args.shape = last.args.given

\* a chunk of a tensor with no recorded shape serialized an image of three
\* axes, and then a grayscale image, which got its third axis
C22_Witness ==
    /\ GrayscaleCase
    /\ meta.max_shape = <<>>
    /\ last.args.num_dims = Some(3)
    /\ last.args.shape = <<2, 2, 1>>

\* the keys of the objects under the provider's root, and such a key
\* relative to the root
UnderRoot ==
    { k \in KeySet : /\ objects[k] # None
                     /\ Len(k) > Len(provider.path)
                     /\ SubSeq(k, 1, Len(provider.path)) = provider.path }

Relative(k) == SubSeq(k, Len(provider.path) + 1, Len(k))

\* C23 (S3 listing agrees with set and get): whatever the provider's root,
\* listing the provider yields, for each object stored under the root, its
\* key relative to the root and nothing else, each yielded key gets the
\* object's bytes, and len(provider) is the number of objects under the root.
C23_ListingAgrees ==
    /\ (s3last.op = "list" /\ s3last.raised = "none") =>
          /\ Len(s3last.value) = Cardinality(UnderRoot)
          /\ { s3last.value[i] : i \in 1..Len(s3last.value) }
                = { Relative(k) : k \in UnderRoot }
          /\ \A i \in 1..Len(s3last.value) :
                \E k \in UnderRoot :
                    getitem(provider, objects, s3last.value[i], "none").value = objects[k]
    /\ (s3last.op = "len" /\ s3last.raised = "none") =>
          s3last.value = Cardinality(UnderRoot)

====
